---- MODULE Spec2Model ----
(***************************************************************************)
(* Stamp-die-kaart: the loyalty-card ledger of murphy2505/stamp-die-kaart. *)
(*                                                                         *)
(* The repository holds several revisions of server/index.js.  Two of them *)
(* keep the document only in db.json and re-read it on every request:      *)
(*   "p000"  src/unnamed/part_000  (stamps carry a redeemed flag, redeem   *)
(*           takes a count, readDb rethrows a failed read)                 *)
(*   "p001"  src/unnamed/part_001  (redeem deletes the stamps, threshold   *)
(*           REWARD_THRESHOLD, readDB falls back to an empty document)     *)
(* and one keeps the document in memory and flushes it through a queue:    *)
(*   "mem"   src/server/index.js                                           *)
(* The variable `variant` says which revision runs; it never changes.      *)
(*                                                                         *)
(* Strings (names, phones, e-mails) are sequences of one-character         *)
(* strings, so that trim and the emptiness tests act on their content.     *)
(* Identifiers (uuidv4) are fresh integers; timestamps are the integer     *)
(* clock `now`, and the calendar day of a timestamp is Day(t).             *)
(* Requests are those that passed the authentication middleware.           *)
(***************************************************************************)
EXTENDS Integers, Sequences, FiniteSets, TLC

\* ------------------------------------------------------------------ bounds
\* Concurrent request handlers in flight.
MaxReqs == 2
\* Requests accepted over a run (caps the identifier counter).
MaxOps == 4
\* Last value of the clock.
MaxNow == 1
\* Clock ticks per calendar day.
DayLen == 1
\* fs.writeFile failures over a run.
MaxFails == 1
\* Connections to GET /sse over a run.
MaxSinks == 2

\* --------------------------------------------------------- program constants
\* Anti-fraud: max 3 stamps per customer per day.
DailyCap == 3
\* parseInt(process.env.REWARD_THRESHOLD || '10'): the deployment modelled here
\* sets REWARD_THRESHOLD=2.
REWARD_THRESHOLD == 2

VARIABLES
  variant,   \* which revision of the server runs
  now,       \* the clock (new Date())
  started,   \* requests accepted so far; request k draws identifier k
  disk,      \* db.json: [complete, doc]; complete = FALSE while the file is cut short
  chain,     \* the dbLock / writeQueue promise chain: writes enqueued and not yet settled
  writing,   \* the head of the chain has opened (truncated) the file
  broken,    \* dbLock / writeQueue is a rejected promise
  fails,     \* writeFile failures so far
  mem,       \* the in-memory document `db` of server/index.js
  reqs,      \* the request handlers, one record per slot
  issued,    \* stamps returned to callers with a success status
  redeemedOut, \* redemptions returned to callers with a success status
  registeredOut, \* customers returned to callers with a success status
  published, \* the events sendSSE was called with, in call order
  sinks,     \* the connections to GET /sse: what each was sent
  sseClients \* the registry of open connections sendSSE writes to

vars == <<variant, now, started, disk, chain, writing, broken, fails, mem, reqs,
          issued, redeemedOut, registeredOut, published, sinks, sseClients>>

\* What callers hold and what the connections to GET /sse were sent.
heldVars == <<issued, redeemedOut, registeredOut, published, sinks>>
\* The write queue and the file.
storeVars == <<disk, chain, writing, broken, fails>>

Reqs == 1..MaxReqs

\* ------------------------------------------------------------------ strings
SP == " "
\* What clients send.  Phones: absent, a number, the number after a blank.
PhoneInputs == {<<>>, <<"6">>, <<SP, "6">>}
NameInputs == {<<>>, <<"a">>}
\* The count of a redeem request (part_000).
CountInputs == {0, 1, 2}

RECURSIVE TrimStart(_)
TrimStart(s) == IF s # <<>> /\ Head(s) = SP THEN TrimStart(Tail(s)) ELSE s

RECURSIVE TrimEnd(_)
TrimEnd(s) == IF s # <<>> /\ s[Len(s)] = SP THEN TrimEnd(SubSeq(s, 1, Len(s) - 1)) ELSE s

\* String.prototype.trim
Trim(s) == TrimEnd(TrimStart(s))

\* JavaScript truthiness of a string / of a number
Truthy(s) == s # <<>>
TruthyNum(n) == n # 0

\* ---------------------------------------------------------------- documents
EmptyDoc ==
  [customers |-> <<>>, stamps |-> <<>>, redemptions |-> <<>>, logs |-> <<>>,
   apiKeys |-> <<>>, tokens |-> <<>>]

\* new Date().toISOString().split('T')[0]
Day(t) == t \div DayLen

\* Array.prototype.filter is SelectSeq.  Array.prototype.find is the first
\* element that filter keeps, or undefined (NoRec).
NoRec == [id |-> 0]
Find(matches) == IF matches = <<>> THEN NoRec ELSE Head(matches)

Ids(seq) == [i \in DOMAIN seq |-> seq[i].id]
Range(seq) == {seq[i] : i \in DOMAIN seq}

\* One insertion step of a stable ascending sort on createdAt.
RECURSIVE InsertByCreatedAt(_, _)
InsertByCreatedAt(sorted, s) ==
  IF sorted = <<>> THEN <<s>>
  ELSE IF sorted[Len(sorted)].createdAt <= s.createdAt THEN Append(sorted, s)
       ELSE Append(InsertByCreatedAt(SubSeq(sorted, 1, Len(sorted) - 1), s), sorted[Len(sorted)])

\* .sort((a, b) => new Date(a.createdAt) - new Date(b.createdAt)): stable, ascending
RECURSIVE SortByCreatedAt(_)
SortByCreatedAt(seq) ==
  IF seq = <<>> THEN <<>>
  ELSE InsertByCreatedAt(SortByCreatedAt(SubSeq(seq, 1, Len(seq) - 1)), seq[Len(seq)])

\* slice(-n): the newest n instead of the oldest n
TakeNewest(seq, n) == SubSeq(seq, IF n < Len(seq) THEN Len(seq) - n + 1 ELSE 1, Len(seq))

\* slice(0, n)
Take(seq, n) == SubSeq(seq, 1, IF n < Len(seq) THEN n ELSE Len(seq))

\* readDb / readDB: the parsed file; a file under write does not parse.
ReadThrows(v) == v = "p000"

\* customer.stamps is a JavaScript number: an integer or NaN.  NaN is written
\* here as an integer that no count of a run comes near; Null is what JSON has
\* in the place of a number that JSON.stringify could not write.
NaN == -1000
Null == -1001
\* a + b, -a and a < b on such numbers (Null counts as 0, as null does)
Num(a) == IF a = Null THEN 0 ELSE a
Plus(a, b) == IF a = NaN \/ b = NaN THEN NaN ELSE Num(a) + Num(b)
Neg(a) == IF a = NaN THEN NaN ELSE -Num(a)
Less(a, b) == a # NaN /\ b # NaN /\ Num(a) < Num(b)

\* JSON.stringify(db, null, 2): the JSON value of the document; NaN has no
\* JSON form and is written as null.
Stringify(db) ==
  [db EXCEPT !.customers =
     [i \in DOMAIN @ |->
        IF "stamps" \in DOMAIN @[i] /\ @[i].stamps = NaN
        THEN [@[i] EXCEPT !.stamps = Null] ELSE @[i]]]
\* JSON.parse(data): the document the JSON value denotes.
Parse(json) == json

ReadDb(d) == IF d.complete THEN Parse(d.doc) ELSE EmptyDoc

\* ------------------------------------------------------------ the handlers
\* A handler's outcome: the response (status, error, the record returned, the
\* numbers an error reports), the document it holds afterwards, and whether it
\* goes on to writeDb.
Outcome(status, err, rec, info, db, write) ==
  [status |-> status, err |-> err, rec |-> rec, info |-> info, db |-> db, write |-> write]

\* Customer lookup of the stamp and redeem handlers.
FindCustomer(v, db, customerId, phone) ==
  IF v = "p000"
  THEN Find(SelectSeq(db.customers, LAMBDA c : (TruthyNum(customerId) /\ c.id = customerId)
                                                 \/ (Truthy(phone) /\ c.phone = phone)))
  ELSE IF TruthyNum(customerId)
  THEN Find(SelectSeq(db.customers, LAMBDA c : c.id = customerId))
  ELSE IF Truthy(phone) THEN Find(SelectSeq(db.customers, LAMBDA c : c.phone = phone))
  ELSE NoRec

\* POST /api/customers after the read
Register(v, db, name, phone, id, t) ==
  LET key == IF v = "p000" THEN phone ELSE Trim(phone)
      existing == Find(SelectSeq(db.customers, LAMBDA c : c.phone = key))
      customer == [id |-> id, name |-> IF v = "p000" THEN name ELSE Trim(name),
                   phone |-> key, createdAt |-> t]
      logged == IF v = "p000" THEN db.logs
                ELSE Append(db.logs, [type |-> "customer_created", customerId |-> id])
  IN IF existing # NoRec
     THEN Outcome(200, "", existing, <<>>, db, FALSE)
     ELSE Outcome(IF v = "p000" THEN 201 ELSE 200, "", customer, <<>>,
                  [db EXCEPT !.customers = Append(@, customer), !.logs = logged], TRUE)

\* stampsTodayForCustomer, and the inline filter of part_000
StampsToday(db, customerId, t) ==
  Len(SelectSeq(db.stamps, LAMBDA s : s.customerId = customerId /\ Day(s.createdAt) = Day(t)))

\* A stamp handler without the 404: it stamps the card of whatever customerId
\* the request names.
StampAnyCustomer(v, db, customerId, phone, id, t) ==
  LET stamp == [id |-> id, customerId |-> customerId, createdAt |-> t, redeemed |-> FALSE]
  IN Outcome(IF v = "p000" THEN 201 ELSE 200, "", stamp, <<>>,
             [db EXCEPT !.stamps = Append(@, stamp),
                        !.logs = Append(@, [type |-> "stamp", customerId |-> customerId])],
             TRUE)

\* The stamp is pushed before the daily cap is checked.
StampThenCheck(v, db, customerId, phone, id, t) ==
  LET customer == FindCustomer(v, db, customerId, phone)
      stamp == [id |-> id, customerId |-> customer.id, createdAt |-> t, redeemed |-> FALSE]
      pushed == [db EXCEPT !.stamps = Append(@, stamp)]
  IN IF customer = NoRec THEN Outcome(404, "NotFound", NoRec, <<>>, db, FALSE)
     ELSE IF StampsToday(pushed, customer.id, t) > DailyCap
     THEN Outcome(429, "RateLimited", NoRec, <<>>, pushed, TRUE)
     ELSE Outcome(201, "", stamp, <<>>, pushed, TRUE)

\* POST /api/stamps after the read
Stamp(v, db, customerId, phone, id, t) ==
  LET customer == FindCustomer(v, db, customerId, phone)
      todayCount == StampsToday(db, customer.id, t)
      stamp == [id |-> id, customerId |-> customer.id, createdAt |-> t, redeemed |-> FALSE]
  IN IF customer = NoRec THEN Outcome(404, "NotFound", NoRec, <<>>, db, FALSE)
     ELSE IF todayCount >= DailyCap
     THEN Outcome(429, "RateLimited", NoRec,
                  IF v = "p000" THEN <<>> ELSE <<todayCount>>, db, FALSE)
     ELSE Outcome(IF v = "p000" THEN 201 ELSE 200, "", stamp, <<>>,
                  [db EXCEPT !.stamps = Append(@, stamp),
                             !.logs = Append(@, [type |-> "stamp", customerId |-> customer.id])],
                  TRUE)

\* A redemption as callers and the checks see it: `stampIds` are the stamps it
\* consumed, `seen` the balance its handler read.  (part_001 stores and returns
\* only id and customerId; there stampIds and seen are bookkeeping.)
Redemption(id, customerId, stampIds, seen) ==
  [id |-> id, customerId |-> customerId, stampIds |-> stampIds, seen |-> seen]

\* POST /api/redeem after the read, part_000: mark the oldest `count` stamps
RedeemMark(db, customerId, phone, count, id, t) ==
  LET customer == FindCustomer("p000", db, customerId, phone)
      unredeemedStamps == SortByCreatedAt(
          SelectSeq(db.stamps, LAMBDA s : s.customerId = customer.id /\ ~s.redeemed))
      redeemedStampIds == Ids(Take(unredeemedStamps, count))
      marked == [i \in DOMAIN db.stamps |->
                   IF \E k \in DOMAIN redeemedStampIds : redeemedStampIds[k] = db.stamps[i].id
                   THEN [db.stamps[i] EXCEPT !.redeemed = TRUE] ELSE db.stamps[i]]
      stored == [id |-> id, customerId |-> customer.id,
                 stampIds |-> redeemedStampIds, count |-> count]
  IN IF customer = NoRec THEN Outcome(404, "NotFound", NoRec, <<>>, db, FALSE)
     ELSE IF Len(unredeemedStamps) < count
     THEN Outcome(400, "InsufficientBalance", NoRec, <<Len(unredeemedStamps), count>>, db, FALSE)
     ELSE Outcome(200, "",
                  Redemption(id, customer.id, redeemedStampIds, Len(unredeemedStamps)), <<>>,
                  [db EXCEPT !.stamps = marked,
                             !.redemptions = Append(@, stored),
                             !.logs = Append(@, [type |-> "redeem", customerId |-> customer.id])],
                  TRUE)

\* POST /api/redeem of part_000 for a count that need not be whole: the count
\* is given, and stored, in halves (`twice` = 3 is a count of 1.5).
\* slice(0, count) truncates count to an integer.
RedeemMarkHalves(db, customerId, phone, twice, id, t) ==
  LET customer == FindCustomer("p000", db, customerId, phone)
      unredeemedStamps == SortByCreatedAt(
          SelectSeq(db.stamps, LAMBDA s : s.customerId = customer.id /\ ~s.redeemed))
      redeemedStampIds == Ids(Take(unredeemedStamps, twice \div 2))
      marked == [i \in DOMAIN db.stamps |->
                   IF \E k \in DOMAIN redeemedStampIds : redeemedStampIds[k] = db.stamps[i].id
                   THEN [db.stamps[i] EXCEPT !.redeemed = TRUE] ELSE db.stamps[i]]
      stored == [id |-> id, customerId |-> customer.id,
                 stampIds |-> redeemedStampIds, count |-> twice]
  IN IF twice = 0 \/ twice < 2 THEN Outcome(400, "ValidationError", NoRec, <<>>, db, FALSE)
     ELSE IF customer = NoRec THEN Outcome(404, "NotFound", NoRec, <<>>, db, FALSE)
     ELSE IF 2 * Len(unredeemedStamps) < twice
     THEN Outcome(400, "InsufficientBalance", NoRec, <<Len(unredeemedStamps), twice>>, db, FALSE)
     ELSE Outcome(200, "",
                  Redemption(id, customer.id, redeemedStampIds, Len(unredeemedStamps)), <<>>,
                  [db EXCEPT !.stamps = marked,
                             !.redemptions = Append(@, stored),
                             !.logs = Append(@, [type |-> "redeem", customerId |-> customer.id])],
                  TRUE)

\* POST /api/redeem after the read, part_001: delete the oldest REWARD_THRESHOLD stamps
RedeemRemove(db, customerId, phone, id, t) ==
  LET customer == FindCustomer("p001", db, customerId, phone)
      customerStamps == SelectSeq(db.stamps, LAMBDA s : s.customerId = customer.id)
      sorted == SortByCreatedAt(customerStamps)
      toRemoveIds == Ids(Take(sorted, REWARD_THRESHOLD))
      stored == [id |-> id, customerId |-> customer.id]
  IN IF customer = NoRec THEN Outcome(404, "NotFound", NoRec, <<>>, db, FALSE)
     ELSE IF Len(customerStamps) < REWARD_THRESHOLD
     THEN Outcome(400, "InsufficientBalance", NoRec,
                  <<Len(customerStamps), REWARD_THRESHOLD>>, db, FALSE)
     ELSE Outcome(200, "",
                  Redemption(id, customer.id, toRemoveIds, Len(customerStamps)), <<>>,
                  [db EXCEPT !.stamps = SelectSeq(@, LAMBDA s :
                                 ~\E k \in DOMAIN toRemoveIds : toRemoveIds[k] = s.id),
                             !.redemptions = Append(@, stored),
                             !.logs = Append(@, [type |-> "redeem", customerId |-> customer.id])],
                  TRUE)

\* The balance check compares against one stamp fewer than is needed.
RedeemOffByOne(v, db, customerId, phone, count, id, t) ==
  LET customer == FindCustomer(v, db, customerId, phone)
      have == Len(SelectSeq(db.stamps, LAMBDA s : s.customerId = customer.id /\ ~s.redeemed))
      need == IF v = "p000" THEN count ELSE REWARD_THRESHOLD
  IN IF customer = NoRec THEN Outcome(404, "NotFound", NoRec, <<>>, db, FALSE)
     ELSE IF have < need - 1
     THEN Outcome(400, "InsufficientBalance", NoRec, <<have, need>>, db, FALSE)
     ELSE Outcome(200, "", Redemption(id, customer.id, <<>>, have), <<>>, db, TRUE)

Redeem(v, db, customerId, phone, count, id, t) ==
  IF v = "p000" THEN RedeemMark(db, customerId, phone, count, id, t)
  ELSE RedeemRemove(db, customerId, phone, id, t)

\* The handler from its readDb result to its response or its writeDb call.
Handle(v, op, db, name, phone, customerId, count, id, t) ==
  CASE op = "register" -> Register(v, db, name, phone, id, t)
    [] op = "stamp" -> Stamp(v, db, customerId, phone, id, t)
    [] op = "redeem" -> Redeem(v, db, customerId, phone, count, id, t)

\* ------------------------------------------------------------- the requests
\* Until its readDb returns a handler has touched nothing shared, so a request
\* enters the model at that moment.  From then on it is awaiting writeDb
\* ("writing": it holds the document it read, `base`, and its outcome) or it
\* has responded and its slot is idle again.
NoOutcome == Outcome(0, "", NoRec, <<>>, EmptyDoc, FALSE)
IdleReq == [pc |-> "idle", op |-> "none", base |-> EmptyDoc, out |-> NoOutcome]

\* A new request takes the lowest idle slot (slots are only names).
Slot(r) == reqs[r].pc = "idle" /\ \A o \in Reqs : o < r => reqs[o].pc # "idle"

\* Customer ids a client can hold: those some response carried.
KnownIds == {0} \cup {c.id : c \in registeredOut}

\* The validation a handler does before its first await; TRUE when it passes.
Valid(v, op, name, phone, customerId, count) ==
  CASE op = "register" -> Truthy(name) /\ Truthy(phone)
    [] op = "stamp" -> v # "p000" \/ TruthyNum(customerId) \/ Truthy(phone)
    [] op = "redeem" -> v # "p000" \/ ((TruthyNum(customerId) \/ Truthy(phone)) /\ count >= 1)

\* ------------------------------------------------------------------ sendSSE
Handles == 1..MaxSinks

\* A connection to GET /sse: `throws` says that res.write on it throws, `got`
\* is what was written to it while it is open, `since` / `until` count the
\* events published before it was registered / before its close handler ran.
FreeSink == [state |-> "free", throws |-> FALSE, got |-> <<>>, since |-> 0, until |-> 0]

\* sendSSE without the try / catch: the first write that throws ends the loop.
RECURSIVE SendSSEUncaught(_, _, _)
SendSSEUncaught(clients, ss, ev) ==
  IF clients = <<>> \/ ss[Head(clients)].throws THEN ss
  ELSE SendSSEUncaught(Tail(clients), [ss EXCEPT ![Head(clients)].got = Append(@, ev)], ev)

\* sendSSE: write the event to every registered connection, in registry
\* order; a write that throws is caught and the loop goes on.
RECURSIVE SendSSE(_, _, _)
SendSSE(clients, ss, ev) ==
  IF clients = <<>> THEN ss
  ELSE SendSSE(Tail(clients),
               IF ss[Head(clients)].throws THEN ss
               ELSE [ss EXCEPT ![Head(clients)].got = Append(@, ev)],
               ev)

\* The handlers that call sendSSE after their write: stamp and redeem, and in
\* server/index.js every handler that writes.
Notifies(op, o) ==
  o.err = "" /\ o.write /\ (op \in {"stamp", "redeem"} \/ variant = "mem")

\* What a response adds to what callers hold.
Publish(op, o) ==
  /\ LET ev == [n |-> Len(published) + 1, type |-> op, id |-> o.rec.id]
     IN IF Notifies(op, o)
        THEN published' = Append(published, ev) /\ sinks' = SendSSE(sseClients, sinks, ev)
        ELSE UNCHANGED <<published, sinks>>
  /\ issued' = IF op = "stamp" /\ o.err = "" THEN issued \cup {o.rec} ELSE issued
  /\ redeemedOut' = IF op = "redeem" /\ o.err = "" THEN redeemedOut \cup {o.rec} ELSE redeemedOut
  /\ registeredOut' = IF op = "register" /\ o.err = "" THEN registeredOut \cup {o.rec}
                      ELSE registeredOut

\* A request of part_000 / part_001: validation, await readDb(), the handler
\* up to its response or to its writeDb call.
Request(r, op, name, phone, customerId, count) ==
  /\ variant # "mem"
  /\ Slot(r)
  /\ started < MaxOps
  /\ started' = started + 1
  /\ IF ~Valid(variant, op, name, phone, customerId, count)
     THEN /\ Publish(op, Outcome(400, "ValidationError", NoRec, <<>>, EmptyDoc, FALSE))
          /\ UNCHANGED <<reqs, chain>>
     ELSE IF ~disk.complete /\ ReadThrows(variant)
     THEN /\ Publish(op, Outcome(500, "Internal", NoRec, <<>>, EmptyDoc, FALSE))
          /\ UNCHANGED <<reqs, chain>>
     ELSE LET db == ReadDb(disk)
              o == Handle(variant, op, db, name, phone, customerId, count, started + 1, now)
          IN IF o.write
             THEN /\ reqs' = [reqs EXCEPT ![r] =
                                [pc |-> "writing", op |-> op, base |-> db, out |-> o]]
                  /\ chain' = Append(chain, r)
                  /\ UNCHANGED heldVars
             ELSE /\ Publish(op, o)
                  /\ UNCHANGED <<reqs, chain>>
  /\ UNCHANGED <<variant, sseClients, now, disk, writing, broken, fails, mem>>

RegisterReq(r) ==
  \E name \in NameInputs, phone \in PhoneInputs : Request(r, "register", name, phone, 0, 0)

\* A stamp or redeem request names the customer by id or by phone (or by neither).
StampReq(r) ==
  \E customerId \in KnownIds, phone \in PhoneInputs :
    /\ customerId = 0 \/ phone = <<>>
    /\ Request(r, "stamp", <<>>, phone, customerId, 0)

RedeemReq(r) ==
  \E customerId \in KnownIds, phone \in PhoneInputs, count \in CountInputs :
    /\ customerId = 0 \/ phone = <<>>
    /\ variant = "p000" \/ count = 0
    /\ Request(r, "redeem", <<>>, phone, customerId, count)

\* ------------------------------------------------------------- verifyApiKey
\* The environment a server is started with: API_KEY ("" when not set) and
\* API_KEYS after split(",").
EnvInputs ==
  {[API_KEY |-> "", API_KEYS |-> <<>>],
   [API_KEY |-> "env-key", API_KEYS |-> <<>>],
   [API_KEY |-> "", API_KEYS |-> <<"env-key", "env-key-2">>]}
\* The x-api-key header of a request ("" when missing).
KeyInputs == {"", "env-key", "env-key-2", "demo-key-123", "other"}

\* getAllowedApiKeysFromEnv: API_KEY if set, else the keys of API_KEYS
Allowed(env) == IF env.API_KEY # "" THEN {env.API_KEY} ELSE Range(env.API_KEYS)

\* verifyApiKey: the status it answers with, 0 when it calls next().
\*   part_000 looks the key up in the apiKeys of db.json, and nowhere else;
\*   part_001 looks it up in the environment, and nowhere else;
\*   server/index.js looks it up in the environment, then in db.apiKeys.
VerifyApiKey(v, env, d, db, apiKey) ==
  CASE v = "p000" ->
         IF ~d.complete THEN 500
         ELSE IF apiKey = "" \/ apiKey \notin Range(d.doc.apiKeys) THEN 401
         ELSE 0
    [] v = "p001" ->
         IF Allowed(env) = {} THEN 500
         ELSE IF apiKey = "" \/ apiKey \notin Allowed(env) THEN 401
         ELSE 0
    [] v = "mem" ->
         IF env.API_KEY # "" /\ apiKey = env.API_KEY THEN 0
         ELSE IF env.API_KEYS # <<>> /\ apiKey \in Range(env.API_KEYS) THEN 0
         ELSE IF apiKey \in Range(db.apiKeys) THEN 0
         ELSE 401

\* ------------------------------------------------------------------ GET /sse
\* sseClients.indexOf(res): the position from 0, -1 when it is not there
IndexOf(clients, h) ==
  IF \E i \in DOMAIN clients : clients[i] = h
  THEN (CHOOSE i \in DOMAIN clients :
          clients[i] = h /\ \A j \in DOMAIN clients : clients[j] = h => i <= j) - 1
  ELSE -1

\* sseClients.splice(index, 1): a negative index counts from the end
Splice(clients, index) ==
  LET start == IF index >= 0 THEN index
               ELSE IF Len(clients) + index > 0 THEN Len(clients) + index ELSE 0
  IN IF start >= Len(clients) THEN clients
     ELSE SubSeq(clients, 1, start) \o SubSeq(clients, start + 2, Len(clients))

\* A close handler that splices without looking at what indexOf returned.
UnsubscribeUnguarded(v, clients, h) == Splice(clients, IndexOf(clients, h))

\* The close handler of a connection: part_000 filters the registry, part_001
\* and server/index.js splice the connection out when indexOf finds it.
Unsubscribe(v, clients, h) ==
  IF v = "p000" THEN SelectSeq(clients, LAMBDA client : client # h)
  ELSE IF IndexOf(clients, h) # -1 THEN Splice(clients, IndexOf(clients, h))
  ELSE clients

\* A GET /sse that sends the new connection what was published before it.
SubscribeReplay(h) ==
  /\ sinks[h].state = "free" /\ \A o \in Handles : o < h => sinks[o].state # "free"
  /\ sseClients' = Append(sseClients, h)
  /\ sinks' = [sinks EXCEPT ![h] = [FreeSink EXCEPT !.state = "open", !.got = published,
                                                   !.since = Len(published)]]
  /\ UNCHANGED <<variant, now, started, mem, reqs, issued, redeemedOut, registeredOut, published>>
  /\ UNCHANGED storeVars

\* GET /sse: the connection is pushed on the registry (connections take the
\* lowest free name).
Subscribe(h) ==
  /\ sinks[h].state = "free" /\ \A o \in Handles : o < h => sinks[o].state # "free"
  /\ sseClients' = Append(sseClients, h)
  /\ sinks' = [sinks EXCEPT ![h] = [FreeSink EXCEPT !.state = "open", !.since = Len(published)]]
  /\ UNCHANGED <<variant, now, started, mem, reqs, issued, redeemedOut, registeredOut, published>>
  /\ UNCHANGED storeVars

\* The connection's socket fails: from now on res.write on it throws.
SinkBreaks(h) ==
  /\ sinks[h].state = "open" /\ ~sinks[h].throws
  /\ sinks' = [sinks EXCEPT ![h].throws = TRUE]
  /\ UNCHANGED <<variant, sseClients, now, started, mem, reqs, issued, redeemedOut,
                 registeredOut, published>>
  /\ UNCHANGED storeVars

\* req.on('close'): the connection is taken off the registry.
Close(h) ==
  /\ sinks[h].state = "open"
  /\ sseClients' = Unsubscribe(variant, sseClients, h)
  /\ sinks' = [sinks EXCEPT ![h] = [FreeSink EXCEPT !.state = "closed",
                                                   !.until = Len(published)]]
  /\ UNCHANGED <<variant, now, started, mem, reqs, issued, redeemedOut, registeredOut, published>>
  /\ UNCHANGED storeVars

\* ------------------------------------------------ server/index.js (in memory)
\* addLog: push, then keep the last LogCap entries
LogCap == 1000
AddLog(logs, entry) ==
  LET pushed == Append(logs, entry)
  IN IF Len(pushed) > LogCap THEN SubSeq(pushed, Len(pushed) - LogCap + 1, Len(pushed))
     ELSE pushed

\* What clients send to server/index.js.
EmailInputs == {<<>>, <<"x">>, <<"y">>}
MemPhoneInputs == {<<>>, <<"6">>}
\* stampsRequired of a redeem request; 10 is the default of an omitted one.
StampsRequiredInputs == {-1, 0, 1, 10}

\* POST /api/customers up to its await saveDatabase()
MemRegister(db, name, email, phone, id, t) ==
  LET existing == Find(SelectSeq(db.customers, LAMBDA c : c.email = email))
      customer == [id |-> id, name |-> name, email |-> email, phone |-> phone,
                   stamps |-> 0, createdAt |-> t]
  IN IF ~Truthy(name) \/ ~Truthy(email)
     THEN Outcome(400, "ValidationError", NoRec, <<>>, db, FALSE)
     ELSE IF existing # NoRec
     THEN Outcome(409, "Conflict", NoRec, <<existing.id>>, db, FALSE)
     ELSE Outcome(201, "", customer, <<>>,
                  [db EXCEPT !.customers = Append(@, customer),
                             !.logs = AddLog(@, [type |-> "customer_registered", customerId |-> id])],
                  TRUE)

\* customer.stamps += d, on the customer's record in the document
Bump(customers, customerId, d) ==
  [i \in DOMAIN customers |->
     IF customers[i].id = customerId THEN [customers[i] EXCEPT !.stamps = Plus(@, d)]
     ELSE customers[i]]

\* POST /api/stamps up to its await saveDatabase()
MemStamp(db, customerId, id, t) ==
  LET customer == Find(SelectSeq(db.customers, LAMBDA c : c.id = customerId))
      stamp == [id |-> id, customerId |-> customerId, createdAt |-> t]
  IN IF ~TruthyNum(customerId) THEN Outcome(400, "ValidationError", NoRec, <<>>, db, FALSE)
     ELSE IF customer = NoRec THEN Outcome(404, "NotFound", NoRec, <<>>, db, FALSE)
     ELSE Outcome(201, "", stamp, <<Plus(customer.stamps, 1)>>,
                  [db EXCEPT !.stamps = Append(@, stamp),
                             !.customers = Bump(@, customerId, 1),
                             !.logs = AddLog(@, [type |-> "stamp_added", customerId |-> customerId])],
                  TRUE)

\* POST /api/redeem up to its await saveDatabase()
MemRedeem(db, customerId, stampsRequired, id, t) ==
  LET customer == Find(SelectSeq(db.customers, LAMBDA c : c.id = customerId))
      redemption == [id |-> id, customerId |-> customerId, stampsUsed |-> stampsRequired]
  IN IF ~TruthyNum(customerId) THEN Outcome(400, "ValidationError", NoRec, <<>>, db, FALSE)
     ELSE IF customer = NoRec THEN Outcome(404, "NotFound", NoRec, <<>>, db, FALSE)
     ELSE IF Less(customer.stamps, stampsRequired)
     THEN Outcome(400, "InsufficientBalance", NoRec, <<customer.stamps, stampsRequired>>, db, FALSE)
     ELSE Outcome(200, "", redemption, <<Plus(customer.stamps, Neg(stampsRequired))>>,
                  [db EXCEPT !.redemptions = Append(@, redemption),
                             !.customers = Bump(@, customerId, Neg(stampsRequired)),
                             !.logs = AddLog(@, [type |-> "redemption", customerId |-> customerId])],
                  TRUE)

\* A request of server/index.js: the handler runs on `db` up to its response
\* or to its await saveDatabase(), in one turn of the event loop.
MemRequest(r, op, o) ==
  /\ variant = "mem"
  /\ Slot(r)
  /\ started < MaxOps
  /\ started' = started + 1
  /\ mem' = o.db
  /\ IF o.write
     THEN /\ reqs' = [reqs EXCEPT ![r] = [pc |-> "writing", op |-> op, base |-> mem, out |-> o]]
          /\ chain' = Append(chain, r)
          /\ UNCHANGED heldVars
     ELSE /\ Publish(op, o)
          /\ UNCHANGED <<reqs, chain>>
  /\ UNCHANGED <<variant, sseClients, now, disk, writing, broken, fails>>

MemRegisterReq(r) ==
  \E name \in NameInputs, email \in EmailInputs, phone \in MemPhoneInputs :
    MemRequest(r, "register", MemRegister(mem, name, email, phone, started + 1, now))

MemStampReq(r) ==
  \E customerId \in KnownIds :
    MemRequest(r, "stamp", MemStamp(mem, customerId, started + 1, now))

\* A redeem request whose stampsRequired is not a number (a string such as
\* "abc", an object): every comparison and subtraction with it gives NaN.
MemRedeemTextReq(r) ==
  \E customerId \in KnownIds :
    MemRequest(r, "redeem", MemRedeem(mem, customerId, NaN, started + 1, now))

MemRedeemReq(r) ==
  \E customerId \in KnownIds, stampsRequired \in StampsRequiredInputs :
    MemRequest(r, "redeem", MemRedeem(mem, customerId, stampsRequired, started + 1, now))

\* .sort((a, b) => b.stamps - a.stamps): stable, descending, in place
RECURSIVE InsertByStamps(_, _)
InsertByStamps(sorted, c) ==
  IF sorted = <<>> THEN <<c>>
  ELSE IF sorted[Len(sorted)].stamps >= c.stamps THEN Append(sorted, c)
       ELSE Append(InsertByStamps(SubSeq(sorted, 1, Len(sorted) - 1), c), sorted[Len(sorted)])

RECURSIVE SortByStamps(_)
SortByStamps(seq) ==
  IF seq = <<>> THEN <<>>
  ELSE InsertByStamps(SortByStamps(SubSeq(seq, 1, Len(seq) - 1)), seq[Len(seq)])

\* GET /api/stats/overview: the response, and `db` as the handler leaves it
\* (Array.prototype.sort sorts db.customers itself and returns it).
MemStats(db) ==
  LET ranked == SortByStamps(db.customers)
  IN [totalCustomers |-> Len(db.customers),
      totalStamps |-> Len(db.stamps),
      totalRedemptions |-> Len(db.redemptions),
      activeCustomers |-> Len(SelectSeq(db.customers, LAMBDA c : c.stamps > 0)),
      topCustomers |-> [i \in 1..(IF Len(ranked) < 5 THEN Len(ranked) ELSE 5) |->
                          [id |-> ranked[i].id, name |-> ranked[i].name,
                           stamps |-> ranked[i].stamps]],
      db |-> [db EXCEPT !.customers = ranked]]

\* The stats request: no await, no saveDatabase, no sendSSE.
MemStatsReq ==
  /\ variant = "mem"
  /\ mem' = MemStats(mem).db
  /\ UNCHANGED <<variant, sseClients, now, started, reqs>>
  /\ UNCHANGED storeVars
  /\ UNCHANGED heldVars

\* What an admin sends to POST /api/operators/revoke ("" is an omitted field).
TokenInputs == {"", "t1", "t9"}
OperatorIdInputs == {"", "o1"}
OperatorNameInputs == {"", "ann"}

\* The summary of a removed token that the response carries.
Summary(t) == [token |-> t.token, operatorId |-> t.operatorId, operatorName |-> t.operatorName]

\* A revoke that removes the tokens matching any of the fields sent.
MemRevokeAny(db, token, operatorId, operatorName) ==
  LET hit(t) == \/ token # "" /\ t.token = token
                \/ operatorId # "" /\ t.operatorId = operatorId
                \/ operatorName # "" /\ t.operatorName = operatorName
      tokensToRemove == SelectSeq(db.tokens, hit)
  IN IF token = "" /\ operatorId = "" /\ operatorName = ""
     THEN Outcome(400, "ValidationError", NoRec, <<>>, db, FALSE)
     ELSE Outcome(200, "", NoRec, [i \in DOMAIN tokensToRemove |-> Summary(tokensToRemove[i])],
                  [db EXCEPT !.tokens = SelectSeq(db.tokens, LAMBDA t : ~hit(t)),
                             !.logs = AddLog(@, [type |-> "token_revoke", customerId |-> 0])],
                  TRUE)

\* POST /api/operators/revoke up to its await writeDB(currentDb): the tokens
\* with the given token value, else of the given operatorId, else of the given
\* operatorName.
MemRevoke(db, token, operatorId, operatorName) ==
  LET hit(t) == IF token # "" THEN t.token = token
                ELSE IF operatorId # "" THEN t.operatorId = operatorId
                ELSE t.operatorName = operatorName
      tokensToRemove == SelectSeq(db.tokens, hit)
  IN IF token = "" /\ operatorId = "" /\ operatorName = ""
     THEN Outcome(400, "ValidationError", NoRec, <<>>, db, FALSE)
     ELSE Outcome(200, "", NoRec, [i \in DOMAIN tokensToRemove |-> Summary(tokensToRemove[i])],
                  [db EXCEPT !.tokens = SelectSeq(db.tokens, LAMBDA t : ~hit(t)),
                             !.logs = AddLog(@, [type |-> "token_revoke", customerId |-> 0])],
                  TRUE)

MemRevokeReq(r) ==
  \E token \in TokenInputs, operatorId \in OperatorIdInputs, operatorName \in OperatorNameInputs :
    MemRequest(r, "revoke", MemRevoke(mem, token, operatorId, operatorName))

\* ------------------------------------------------------------ the write queue
\* fs.writeFile in two passes: the stamps first, the redemption records after.
FlushedStampsFirst(v, q, db) == [q.out.db EXCEPT !.redemptions = q.base.redemptions]

\* What the write at the head of the queue puts in the file: the document its
\* handler passed to writeDb, or (server/index.js) JSON.stringify(db) as db is
\* when the queued write starts.
Flushed(v, q, db) == Stringify(IF v = "mem" THEN db ELSE q.out.db)

\* fs.writeFile opens the file for writing: it is truncated until the write
\* ends.  (disk.doc keeps the content before the truncation; no read sees it.)
WriteBegin ==
  /\ chain # <<>> /\ ~writing /\ ~broken
  /\ writing' = TRUE
  /\ disk' = [disk EXCEPT !.complete = FALSE]
  /\ reqs' = [reqs EXCEPT ![Head(chain)].out.db = Flushed(variant, reqs[Head(chain)], mem)]
  /\ UNCHANGED <<variant, sseClients, now, started, chain, broken, fails, mem>>
  /\ UNCHANGED heldVars

\* The write ends: the file holds the document, the writer's handler responds.
WriteEnd ==
  /\ writing
  /\ LET r == Head(chain) IN
       /\ disk' = [complete |-> TRUE, doc |-> reqs[r].out.db]
       /\ reqs' = [reqs EXCEPT ![r] = IdleReq]
       /\ Publish(reqs[r].op, reqs[r].out)
  /\ chain' = Tail(chain)
  /\ writing' = FALSE
  /\ UNCHANGED <<variant, sseClients, now, started, broken, fails, mem>>

\* A handler that does not look at its write's outcome: sendSSE and the success
\* response although fs.writeFile failed.
WriteFailUnnoticed ==
  /\ writing /\ fails < MaxFails
  /\ LET r == Head(chain) IN
       /\ reqs' = [reqs EXCEPT ![r] = IdleReq]
       /\ Publish(reqs[r].op, reqs[r].out)
  /\ chain' = Tail(chain)
  /\ writing' = FALSE
  /\ broken' = TRUE
  /\ fails' = fails + 1
  /\ UNCHANGED <<variant, sseClients, now, started, disk, mem>>

\* The outcome of a handler whose write rejected.
Rejected == Outcome(500, "PersistenceFailure", NoRec, <<>>, EmptyDoc, FALSE)

\* A failed write that puts `db` back to what it was before the handler ran.
WriteFailRollback ==
  /\ writing /\ fails < MaxFails
  /\ LET r == Head(chain) IN
       /\ reqs' = [reqs EXCEPT ![r] = IdleReq]
       /\ Publish(reqs[r].op, Rejected)
       /\ mem' = reqs[r].base
  /\ chain' = Tail(chain)
  /\ writing' = FALSE
  /\ broken' = TRUE
  /\ fails' = fails + 1
  /\ UNCHANGED <<variant, sseClients, now, started, disk>>

\* The write fails and leaves the file cut short: the promise chain rejects
\* and stays rejected.
WriteFail ==
  /\ writing /\ fails < MaxFails
  /\ LET r == Head(chain) IN
       /\ reqs' = [reqs EXCEPT ![r] = IdleReq]
       /\ Publish(reqs[r].op, Rejected)
  /\ chain' = Tail(chain)
  /\ writing' = FALSE
  /\ broken' = TRUE
  /\ fails' = fails + 1
  /\ UNCHANGED <<variant, sseClients, now, started, disk, mem>>

\* A write chained on the rejected promise rejects without running.
WriteSkip ==
  /\ chain # <<>> /\ broken /\ ~writing
  /\ LET r == Head(chain) IN
       /\ reqs' = [reqs EXCEPT ![r] = IdleReq]
       /\ Publish(reqs[r].op, Rejected)
  /\ chain' = Tail(chain)
  /\ UNCHANGED <<variant, sseClients, now, started, disk, writing, broken, fails, mem>>

Tick ==
  /\ now < MaxNow
  /\ now' = now + 1
  /\ UNCHANGED <<variant, sseClients, started, mem, reqs>>
  /\ UNCHANGED storeVars
  /\ UNCHANGED heldVars

\* ------------------------------------------------------------ specifications
\* The server starts on the db.json it finds.
Boot(v, doc, held) ==
  /\ variant = v
  /\ now = 0
  /\ started = 0
  /\ disk = [complete |-> TRUE, doc |-> doc]
  /\ chain = <<>>
  /\ writing = FALSE
  /\ broken = FALSE
  /\ fails = 0
  /\ mem = IF v = "mem" THEN doc ELSE EmptyDoc
  /\ reqs = [r \in Reqs |-> IdleReq]
  /\ issued = {}
  /\ redeemedOut = {}
  /\ registeredOut = held
  /\ published = <<>>
  /\ sinks = [h \in Handles |-> FreeSink]
  /\ sseClients = <<>>

\* part_000 / part_001 on the empty db.json the repository ships.
Init == \E v \in {"p000", "p001"} : Boot(v, EmptyDoc, {})

Next ==
  \/ Tick
  \/ \E r \in Reqs : RegisterReq(r)
  \/ \E r \in Reqs : StampReq(r)
  \/ \E r \in Reqs : RedeemReq(r)
  \/ WriteBegin
  \/ WriteEnd
  \/ WriteFail
  \/ WriteSkip

Spec == Init /\ [][Next]_vars

\* part_000 / part_001 restarted on the db.json an earlier run left: one
\* customer, registered then (identifiers of that run are negative).
SeedCustomer == [id |-> -1, name |-> <<"a">>, phone |-> <<"6">>, createdAt |-> 0]
SeedDoc == [EmptyDoc EXCEPT !.customers = <<SeedCustomer>>]
SeededInit == \E v \in {"p000", "p001"} : Boot(v, SeedDoc, {SeedCustomer})
SeededSpec == SeededInit /\ [][Next]_vars

\* The card desk: part_000 / part_001 on a db.json that holds the customer,
\* serving stamp and redeem requests only.
DeskNext ==
  \/ Tick
  \/ \E r \in Reqs : StampReq(r)
  \/ \E r \in Reqs : RedeemReq(r)
  \/ WriteBegin
  \/ WriteEnd
  \/ WriteFail
  \/ WriteSkip

DeskSpec == SeededInit /\ [][DeskNext]_vars

\* server/index.js on the empty db.json.
MemInit == Boot("mem", EmptyDoc, {})

MemNext ==
  \/ Tick
  \/ \E r \in Reqs : MemRegisterReq(r)
  \/ \E r \in Reqs : MemStampReq(r)
  \/ \E r \in Reqs : MemRedeemReq(r)
  \/ WriteBegin
  \/ WriteEnd
  \/ WriteFail
  \/ WriteSkip

MemSpec == MemInit /\ [][MemNext]_vars

\* server/index.js restarted on the db.json an earlier run left: two
\* customers, the demo API key of the README, three operator tokens.
MemSeedCustomers ==
  <<[id |-> -1, name |-> <<"a">>, email |-> <<"x">>, phone |-> <<"6">>,
     stamps |-> 0, createdAt |-> 0],
    [id |-> -2, name |-> <<"b">>, email |-> <<"y">>, phone |-> <<>>,
     stamps |-> 0, createdAt |-> 0]>>
MemSeedTokens ==
  <<[token |-> "t1", operatorId |-> "o1", operatorName |-> "ann"],
    [token |-> "t2", operatorId |-> "o1", operatorName |-> "bob"],
    [token |-> "t3", operatorId |-> "o2", operatorName |-> "ann"]>>
MemSeedDoc ==
  [EmptyDoc EXCEPT !.customers = MemSeedCustomers, !.tokens = MemSeedTokens,
                   !.apiKeys = <<"demo-key-123">>]
MemSeededInit == Boot("mem", MemSeedDoc, {c : c \in {MemSeedCustomers[1], MemSeedCustomers[2]}})

\* The card desk of server/index.js: stamps for the customers of db.json and
\* the statistics overview.
MemDeskNext ==
  \/ \E r \in Reqs : MemStampReq(r)
  \/ MemStatsReq
  \/ WriteBegin
  \/ WriteEnd
  \/ WriteFail
  \/ WriteSkip

MemDeskSpec == MemSeededInit /\ [][MemDeskNext]_vars

\* The admin desk of server/index.js: token revocations, and stamps for
\* the first customer beside them.
AdminNext ==
  \/ \E r \in Reqs : MemRevokeReq(r)
  \/ \E r \in Reqs : MemRequest(r, "stamp", MemStamp(mem, -1, started + 1, now))
  \/ WriteBegin
  \/ WriteEnd
  \/ WriteFail
  \/ WriteSkip

AdminSpec == MemSeededInit /\ [][AdminNext]_vars

\* part_001 restarted on the db.json of a run in which the customer was
\* registered and operators then logged in LogCap - 1 times: each login left
\* a token and a log entry.
LongLogDoc ==
  [SeedDoc EXCEPT
     !.logs = [i \in 1..LogCap |->
                 IF i = 1 THEN [type |-> "customer_created", customerId |-> SeedCustomer.id]
                 ELSE [type |-> "operator_login", customerId |-> 0]],
     !.tokens = [i \in 1..(LogCap - 1) |->
                   [token |-> i, operatorId |-> "o1", operatorName |-> "ann"]]]
LongLogInit == Boot("p001", LongLogDoc, {SeedCustomer})
LongLogSpec == LongLogInit /\ [][DeskNext]_vars

\* server/index.js serving stamps for the first customer and redeem requests
\* whose stampsRequired is not a number.
TextNext ==
  \/ \E r \in Reqs : MemRequest(r, "stamp", MemStamp(mem, -1, started + 1, now))
  \/ \E r \in Reqs : MemRedeemTextReq(r)
  \/ WriteBegin
  \/ WriteEnd
  \/ WriteFail
  \/ WriteSkip

TextSpec == MemSeededInit /\ [][TextNext]_vars

\* The display: server/index.js stamping the first customer's card while
\* screens connect to GET /sse and disconnect.
HubNext ==
  \/ \E h \in Handles : Subscribe(h)
  \/ \E h \in Handles : SinkBreaks(h)
  \/ \E h \in Handles : Close(h)
  \/ \E r \in Reqs : MemRequest(r, "stamp", MemStamp(mem, -1, started + 1, now))
  \/ WriteBegin
  \/ WriteEnd
  \/ WriteFail
  \/ WriteSkip

HubSpec == MemSeededInit /\ [][HubNext]_vars

\* server/index.js on the empty db.json: registrations, stamps and the
\* statistics overview.
StatsNext ==
  \/ \E r \in Reqs : MemRegisterReq(r)
  \/ \E r \in Reqs : MemStampReq(r)
  \/ MemStatsReq
  \/ WriteBegin
  \/ WriteEnd
  \/ WriteFail
  \/ WriteSkip

StatsSpec == MemInit /\ [][StatsNext]_vars

\* -------------------------------------------------------------------- claims
\* The document a reader of db.json last could parse in full.
Doc == disk.doc
Days == 0..Day(MaxNow)
Writers == {r \in Reqs : reqs[r].pc = "writing"}
Disjoint(a, b) == Range(a) \cap Range(b) = {}

\* C1: for concurrent issueStamp requests for one customer on one calendar
\* day, the document never holds more than 3 stamps of that day for the
\* customer, and at most 3 of the requests report success.
C1_DailyCapUnderConcurrency ==
  \A c \in {s.customerId : s \in issued}, d \in Days :
    /\ StampsToday(Doc, c, d * DayLen) <= DailyCap
    /\ Cardinality({s \in issued : s.customerId = c /\ Day(s.createdAt) = d}) <= DailyCap

\* C2: of two redeemStamps requests for one customer that each found exactly
\* the balance one redemption needs, standing on the same stamps, only one
\* reports success.
C2_OneOfTwoRedeemsSucceeds ==
  \A a, b \in redeemedOut :
    (/\ a.id # b.id
     /\ a.customerId = b.customerId
     /\ a.seen = Len(a.stampIds)
     /\ b.seen = Len(b.stampIds))
    => a.stampIds # b.stampIds

\* C3: no stamp id appears in the stampIds of more than one Redemption, among
\* the Redemption records of the document and the Redemptions returned to
\* callers (part_000, whose redemptions carry stampIds).
C3_StampInOneRedemption ==
  variant = "p000" =>
    LET all == {[id |-> x.id, stampIds |-> x.stampIds] : x \in redeemedOut}
               \cup {[id |-> x.id, stampIds |-> x.stampIds] : x \in Range(Doc.redemptions)}
    IN \A a, b \in all : a.id # b.id => Disjoint(a.stampIds, b.stampIds)

\* C4: registerCustomer requests with one phone number all receive the same
\* Customer id, and no document holds two Customers with that phone.
C4_RegisterRace ==
  /\ \A a, b \in registeredOut : a.phone = b.phone => a.id = b.id
  /\ \A i, j \in DOMAIN Doc.customers :
       Doc.customers[i].phone = Doc.customers[j].phone => i = j

\* C5: registering twice in sequence with one phone number leaves exactly one
\* Customer record with that phone in the document, returned both times.
C5_RegisterIdempotentOnPhone ==
  /\ \A i, j \in DOMAIN mem.customers :
       (Truthy(mem.customers[i].phone) /\ mem.customers[i].phone = mem.customers[j].phone)
       => i = j
  /\ \A a, b \in registeredOut : (Truthy(a.phone) /\ a.phone = b.phone) => a.id = b.id

\* C6: the commit gate is a mutual-exclusion section: at most one commit is
\* between its read of the current state and the end of its disk flush.
C6_OneCommitAtATime == Cardinality(Writers) <= 1

\* C7: no two commits compute their new document from the same 'before'
\* document.
C7_DistinctBeforeDocuments ==
  \A r1, r2 \in Writers : r1 # r2 => reqs[r1].base # reqs[r2].base

\* The document in the file before the write in progress, and the one after it.
PreCommit == disk.doc
PostCommit == IF chain = <<>> THEN disk.doc ELSE reqs[Head(chain)].out.db

\* C8: a read that runs while a commit's disk flush is in progress hands its
\* handler the complete pre-commit or the complete post-commit document.
C8_ReadsSeeWholeDocument ==
  [][\A r \in Reqs :
       (writing /\ reqs[r].pc = "idle" /\ reqs'[r].pc = "writing")
       => reqs'[r].base \in {PreCommit, PostCommit}]_vars

\* Stamps of customer c that a redemption can still take from document db.
Unredeemed(db, c) == {s \in Range(db.stamps) : s.customerId = c /\ ~s.redeemed}
\* Stamp s of the document a redemption read is consumed in the document it writes.
Consumed(q, s) == ~\E x \in Unredeemed(q.out.db, s.customerId) : x.id = s.id

\* C9: a successful redeemStamps never redeems a newer stamp while leaving an
\* older one non-redeemed.
C9_OldestFirst ==
  \A r \in Writers :
    reqs[r].op = "redeem" =>
      \A a, b \in Unredeemed(reqs[r].base, reqs[r].out.rec.customerId) :
        (a.createdAt < b.createdAt /\ Consumed(reqs[r], b)) => Consumed(reqs[r], a)

\* A redemption took an older stamp and left a newer one of the same customer.
C9_Witness ==
  \E r \in Writers :
    /\ reqs[r].op = "redeem"
    /\ \E a, b \in Unredeemed(reqs[r].base, reqs[r].out.rec.customerId) :
         a.createdAt < b.createdAt /\ Consumed(reqs[r], a) /\ ~Consumed(reqs[r], b)

\* C10: once the document shows a stamp with redeemed = true, no later
\* document shows that stamp with redeemed = false.
C10_RedeemedIsMonotonic ==
  [][\A s \in Range(disk.doc.stamps), x \in Range(disk'.doc.stamps) :
       (s.redeemed /\ x.id = s.id) => x.redeemed]_vars

\* Document db pairs every redeemed stamp with a Redemption record naming it,
\* and every Redemption record with redeemed stamps only.
RedemptionWhole(db) ==
  /\ \A s \in Range(db.stamps) :
       s.redeemed => \E x \in Range(db.redemptions) : s.id \in Range(x.stampIds)
  /\ \A x \in Range(db.redemptions) : \A id \in Range(x.stampIds) :
       \E s \in Range(db.stamps) : s.id = id /\ s.redeemed

\* C11: redemption is atomic to observers: no document a reader can see (the
\* file, or the document a handler read from it) has a selected stamp marked
\* redeemed without its Redemption record, or a Redemption record without all
\* of its stamps marked redeemed (part_000, whose stamps carry the flag).
C11_RedemptionAtomic ==
  variant = "p000" =>
    /\ RedemptionWhole(Doc)
    /\ \A r \in Writers : RedemptionWhole(reqs[r].base)

\* The file shows a redemption, and a handler has read a document that shows it.
C11_Witness ==
  /\ variant = "p000"
  /\ \E s \in Range(Doc.stamps) : s.redeemed
  /\ \E r \in Writers : reqs[r].base.redemptions # <<>>

\* C12: a Stamp created by a successful issueStamp is never removed from the
\* document: it is present in every later document.
C12_StampNeverRemoved ==
  \A s \in issued : \E x \in Range(Doc.stamps) : x.id = s.id

\* C13: a Customer that registerCustomer returned as newly created is present
\* in every later document.
C13_CustomerNeverDeleted ==
  \A c \in registeredOut : \E x \in Range(Doc.customers) : x.id = c.id

\* sendSSE('stamp', ...) / sendSSE('redeem', ...): a handler publishes its
\* notification in the turn in which it sends its success response, so the
\* notifications published so far are those of the responses given so far.
Notified ==
  {[type |-> "stamp", id |-> s.id] : s \in issued}
    \cup {[type |-> "redeem", id |-> x.id] : x \in redeemedOut}

\* The record a notification is about is in document db.
Written(n, db) ==
  IF n.type = "stamp" THEN \E s \in Range(db.stamps) : s.id = n.id
  ELSE \E x \in Range(db.redemptions) : x.id = n.id

\* C14: the notification of an issueStamp or redeemStamps is published only
\* in the step in which that operation's disk write completes successfully,
\* the file then holding its record: never before, and never when the write
\* failed.
C14_NotifyAfterWrite ==
  [][\A n \in Notified' \ Notified :
       /\ writing /\ ~writing'
       /\ disk'.complete
       /\ fails' = fails
       /\ Written(n, disk'.doc)]_vars

\* A stamp was notified, and the write of another operation failed.
C14_Witness == Notified # {} /\ fails > 0

\* What a stamp or redeem request can name: a customer id some response
\* carried or an id no customer has, a phone, or neither.
RefIds == KnownIds \cup {MaxOps + 1}

\* C15: a Ledger operation that fails (missing input, unknown customer, daily
\* cap reached, insufficient balance) leaves the document as it was, calls no
\* writeDb and so publishes no notification: on every document the file can
\* hold, for every request.
C15_FailedOperationChangesNothing ==
  \A op \in {"stamp", "redeem"}, customerId \in RefIds, phone \in PhoneInputs,
     count \in CountInputs :
    LET o == Handle(variant, op, Doc, <<>>, phone, customerId, count, started + 1, now)
    IN /\ o.err # "" => (o.db = Doc /\ ~o.write)
       /\ (Valid(variant, op, <<>>, phone, customerId, count) /\ ~o.write) => o.err # ""

\* The file holds a customer at the daily cap and one below a redemption's
\* count: both failures can happen here, and so can NotFound.
C15_Witness ==
  \E c \in KnownIds \ {0} :
    /\ Stamp(variant, Doc, c, <<>>, started + 1, now).err = "RateLimited"
    /\ Redeem(variant, Doc, c, <<>>, DailyCap + 1, started + 1, now).err = "InsufficientBalance"

\* C16: the daily cap counts every stamp created today for the customer,
\* redeemed or not: for a customer with 3 stamps of today in the document,
\* issueStamp fails with RateLimited also after a redemption consumed some or
\* all of them.
C16_CapCountsRedeemedStamps ==
  \A c \in KnownIds \ {0}, count \in CountInputs :
    LET r == Redeem(variant, Doc, c, <<>>, count, started + 1, now)
    IN (/\ StampsToday(Doc, c, now) >= DailyCap
        /\ Valid(variant, "redeem", <<>>, <<>>, c, count)
        /\ r.err = "")
       => Stamp(variant, r.db, c, <<>>, started + 2, now).err = "RateLimited"

\* C17: after three successful issueStamp calls for a registered customer on
\* one day, a fourth issueStamp on that day fails with RateLimited, reports
\* todayCount = 3 and adds no stamp (server/index.js).
C17_FourthStampRateLimited ==
  \A c \in KnownIds \ {0} :
    LET o == MemStamp(mem, c, started + 1, now)
    IN StampsToday(mem, c, now) = DailyCap
       => (o.err = "RateLimited" /\ o.info = <<DailyCap>> /\ o.db = mem)

\* The last record of a sequence.
Last(seq) == seq[Len(seq)]

\* C18: for a customer with exactly threshold non-redeemed stamps,
\* redeemStamps succeeds, the customer's balance becomes 0, and exactly one
\* Redemption is created whose stampIds are exactly those stamps' ids.
C18_RedeemAtThreshold ==
  \A c \in KnownIds \ {0} :
    LET o == Redeem(variant, Doc, c, <<>>, REWARD_THRESHOLD, started + 1, now)
    IN Cardinality(Unredeemed(Doc, c)) = REWARD_THRESHOLD
       => /\ o.err = ""
          /\ Unredeemed(o.db, c) = {}
          /\ Len(o.db.redemptions) = Len(Doc.redemptions) + 1
          /\ "stampIds" \in DOMAIN Last(o.db.redemptions)
          /\ Range(Last(o.db.redemptions).stampIds) = {s.id : s \in Unredeemed(Doc, c)}

\* What one redemption needs: the request's count (part_000) or the threshold.
Required(v, count) == IF v = "p000" THEN count ELSE REWARD_THRESHOLD

\* C19: redeemStamps for a customer with fewer non-redeemed stamps than the
\* redemption needs fails with InsufficientBalance, reports the current count
\* and the required count, and does not mutate the document.
C19_InsufficientBalance ==
  \A c \in KnownIds \ {0}, count \in CountInputs :
    LET o == Redeem(variant, Doc, c, <<>>, count, started + 1, now)
        current == Cardinality(Unredeemed(Doc, c))
    IN (/\ Valid(variant, "redeem", <<>>, <<>>, c, count)
        /\ \E x \in Range(Doc.customers) : x.id = c
        /\ current < Required(variant, count))
       => /\ o.err = "InsufficientBalance"
          /\ o.info = <<current, Required(variant, count)>>
          /\ o.db = Doc
          /\ ~o.write

\* A customer one stamp short of a redemption, after an earlier redemption.
C19_Witness ==
  \E c \in KnownIds \ {0} :
    /\ \E x \in Range(Doc.customers) : x.id = c
    /\ Doc.redemptions # <<>>
    /\ \E count \in CountInputs :
         /\ Valid(variant, "redeem", <<>>, <<>>, c, count)
         /\ Cardinality(Unredeemed(Doc, c)) = Required(variant, count) - 1

\* Stamps of customer c in the in-memory document (server/index.js marks no
\* stamp as consumed and removes none).
StampsOf(db, c) == {s \in Range(db.stamps) : s.customerId = c}

\* Stamps of customer c that the redemptions on record consumed (a redemption
\* consumes the stamps it used, and cannot consume fewer than none).
RECURSIVE UsedBy(_, _)
UsedBy(redemptions, c) ==
  IF redemptions = <<>> THEN 0
  ELSE (IF Head(redemptions).customerId = c /\ Head(redemptions).stampsUsed > 0
        THEN Head(redemptions).stampsUsed ELSE 0)
       + UsedBy(Tail(redemptions), c)

\* C20: the balance reported for a customer equals the number of that
\* customer's stamps in the document not consumed by a redemption: the stored
\* counter customer.stamps, which server/index.js reports, never differs from
\* the Stamp collection.
C20_BalanceFromStamps ==
  \A cust \in Range(mem.customers) :
    cust.stamps = Cardinality(StampsOf(mem, cust.id)) - UsedBy(mem.redemptions, cust.id)


\* C25: load returns an empty Document instead of failing when the file on
\* disk is absent or malformed: whenever db.json cannot be parsed (a
\* fs.writeFile has truncated it and not finished), reading it does not throw
\* and gives the document with every collection empty.
C25_LoadFallsBack ==
  ~disk.complete => ~ReadThrows(variant) /\ ReadDb(disk) = EmptyDoc

\* C21: when the disk write of a commit fails (fs.writeFile fails, or the
\* write was chained on a rejected promise), the caller gets the error (no
\* success response, no notification), the in-memory document keeps the
\* mutation (the stamp stays in db.stamps), and a request that arrives
\* afterwards runs its handler on the in-memory document.
C21_FailedWriteKeepsMemory ==
  [][/\ (Len(chain') < Len(chain) /\ (fails' > fails \/ broken))
        => /\ mem' = mem
           /\ reqs[Head(chain)].op = "stamp"
                => reqs[Head(chain)].out.rec \in Range(mem'.stamps)
           /\ issued' = issued /\ published' = published
     /\ (started' = started + 1 /\ broken)
        => \E customerId \in KnownIds :
             mem' = MemStamp(mem, customerId, started + 1, now).db]_vars

\* The first write failed, and stamps requested after it are in memory.
C21_Witness ==
  /\ variant = "mem" /\ broken /\ chain = <<>>
  /\ Len(disk.doc.stamps) = 0
  /\ Len(mem.stamps) > MaxReqs

\* C27: stats is a pure read: running the statistics overview on the document
\* leaves it unchanged, the order of the customers included.
C27_StatsPureRead == variant = "mem" => MemStats(mem).db = mem

\* The criterion of a revoke request: the token value if sent, else the
\* operatorId if sent, else the operatorName.
Matches(t, token, operatorId, operatorName) ==
  IF token # "" THEN t.token = token
  ELSE IF operatorId # "" THEN t.operatorId = operatorId
  ELSE t.operatorName = operatorName

\* C29: a revoke request removes exactly the tokens matching its criterion,
\* returns exactly those in `removed`, and leaves every other token (in order)
\* and all customers, stamps and redemptions unchanged; a request with none of
\* token, operatorId, operatorName is rejected and changes nothing.
C29_RevokeExactly ==
  \A token \in TokenInputs, operatorId \in OperatorIdInputs, operatorName \in OperatorNameInputs :
    LET o == MemRevoke(mem, token, operatorId, operatorName)
    IN IF token = "" /\ operatorId = "" /\ operatorName = ""
       THEN o.status = 400 /\ o.db = mem /\ ~o.write
       ELSE /\ o.status = 200 /\ o.write
            /\ Range(o.info) = {Summary(t) : t \in {x \in Range(mem.tokens) :
                                    Matches(x, token, operatorId, operatorName)}}
            /\ Len(o.info) + Len(o.db.tokens) = Len(mem.tokens)
            /\ o.db.tokens = SelectSeq(mem.tokens,
                               LAMBDA t : ~Matches(t, token, operatorId, operatorName))
            /\ o.db.customers = mem.customers
            /\ o.db.stamps = mem.stamps
            /\ o.db.redemptions = mem.redemptions

\* A revocation by operatorId was written to db.json and left the token of
\* the other operator; stamps were given beside it.
C29_Witness ==
  /\ variant = "mem" /\ disk.complete
  /\ [n |-> 1, type |-> "revoke", id |-> 0] \in Range(published)
  /\ disk.doc.tokens = <<MemSeedTokens[3]>>
  /\ disk.doc.stamps # <<>>

\* C30: a stamp or redeem request passes verifyApiKey only when its API key
\* is one of the keys configured in the environment: a key stored in the data
\* file is never accepted, and with no key configured every request is
\* rejected.
C30_EnvKeysOnly ==
  \A env \in EnvInputs, apiKey \in KeyInputs :
    VerifyApiKey(variant, env, disk, mem, apiKey) = 0 => apiKey \in Allowed(env)

\* C26: the log is bounded to the most recent 1000 entries: db.json never
\* holds more than LogCap log entries.
C26_LogBounded == disk.complete => Len(disk.doc.logs) <= LogCap

\* C28: round trip: writing the document to disk and loading it back gives a
\* document identical field for field; and db.json, when a write has
\* completed, holds the serialization of a whole document.
C28_RoundTrip ==
  variant = "mem" =>
    /\ Parse(Stringify(mem)) = mem
    /\ disk.complete => DOMAIN disk.doc = DOMAIN EmptyDoc

\* C22: publish delivers to every subscribed sink even when writing to one of
\* them throws: whenever sendSSE is called, every registered connection whose
\* write does not throw is sent the event, and the calling operation's commit
\* is on disk and its response is a success.
C22_FailingSinkIsolated ==
  [][Len(published') > Len(published)
       => LET ev == published'[Len(published')] IN
            /\ \A h \in Range(sseClients) :
                 ~sinks[h].throws => sinks'[h].got = Append(sinks[h].got, ev)
            /\ [type |-> ev.type, id |-> ev.id] \in Notified' \ Notified
            /\ disk'.complete /\ Written([type |-> ev.type, id |-> ev.id], disk'.doc)]_vars

\* A connection registered first throws and missed an event that a connection
\* registered after it was sent.
C22_Witness ==
  \E i, j \in DOMAIN sseClients :
    /\ i < j
    /\ sinks[sseClients[i]].throws
    /\ \E k \in DOMAIN sinks[sseClients[j]].got :
         \A m \in DOMAIN sinks[sseClients[i]].got :
           sinks[sseClients[i]].got[m] # sinks[sseClients[j]].got[k]

\* C23: every sink receives publishes in the order publish was called, and
\* only publishes made while it was subscribed: what an open connection was
\* sent is a part of the sequence of publishes, in its order, with none from
\* before the connection registered; a step adds to it only the event
\* published in that step; and a closed connection is never written to.
C23_OrderNoReplay ==
  /\ [](\A h \in Handles :
          LET got == sinks[h].got IN
            /\ \A i \in DOMAIN got :
                 /\ got[i].n \in DOMAIN published /\ published[got[i].n] = got[i]
                 /\ sinks[h].since < got[i].n
            /\ \A i, j \in DOMAIN got : i < j => got[i].n < got[j].n)
  /\ [][\A h \in Handles :
          /\ sinks[h].state = "closed" => sinks'[h] = sinks[h]
          /\ (sinks'[h].state = "open" /\ sinks'[h].got # sinks[h].got)
               => /\ sinks[h].state = "open" /\ h \in Range(sseClients)
                  /\ Len(published') = Len(published) + 1
                  /\ sinks'[h].got = Append(sinks[h].got, published'[Len(published')])]_vars

\* A connection that registered after the first publish was sent two later ones.
C23_Witness ==
  \E h \in Handles : sinks[h].since > 0 /\ Len(sinks[h].got) >= 2

\* C24: unsubscribe removes exactly the given sink from the registry and
\* leaves the others registered, in order; for a connection that is not
\* registered it removes nothing; and a closed connection is off the registry
\* and is sent nothing after its close.
C24_UnsubscribeExactly ==
  /\ \A h \in Handles, v \in {"p000", "p001", "mem"} :
       Unsubscribe(v, sseClients, h) = SelectSeq(sseClients, LAMBDA client : client # h)
  /\ \A h \in Handles :
       sinks[h].state = "closed"
         => /\ h \notin Range(sseClients)
            /\ sinks[h].got = <<>>

\* One connection has closed, another is still registered, and an event was
\* published after the close.
C24_Witness ==
  \E h \in Handles :
    /\ sinks[h].state = "closed"
    /\ sseClients # <<>>
    /\ Len(published) > sinks[h].until

\* C31: stats returns the top 5 customers ordered by current balance
\* descending, customers of equal balance ordered by customer id: of two
\* entries of topCustomers the earlier has the greater balance, or the same
\* balance and the smaller id.
C31_TopOrderedByBalanceThenId ==
  variant = "mem" =>
    LET top == MemStats(mem).topCustomers IN
      \A i, j \in DOMAIN top :
        i < j => \/ top[i].stamps > top[j].stamps
                 \/ top[i].stamps = top[j].stamps /\ top[i].id < top[j].id

\* C32: registerCustomer never stores a Customer whose name or phone is
\* empty: every customer in the document, in memory and in db.json, has a
\* name and a phone that are more than whitespace.
C32_NameAndPhoneNonEmpty ==
  \A c \in Range(Doc.customers) \cup Range(mem.customers) :
    Trim(c.name) # <<>> /\ Trim(c.phone) # <<>>

\* C33: a failed disk write does not block later persistence: a commit that
\* leaves the write queue without its own fs.writeFile having failed has been
\* written to db.json, and its caller is answered with a success.
C33_FailureDoesNotBlock ==
  [][(Len(chain') < Len(chain) /\ fails' = fails)
       => LET q == reqs[Head(chain)] IN
            /\ disk'.complete /\ disk'.doc = q.out.db
            /\ q.op = "register" => q.out.rec \in registeredOut'
            /\ q.op = "stamp" => q.out.rec \in issued'
            /\ q.op = "redeem" => q.out.rec \in redeemedOut']_vars

\* A document with no customers, stamps or redemptions.
Blank(db) == db.customers = <<>> /\ db.stamps = <<>> /\ db.redemptions = <<>>

\* C34: a commit never overwrites a persisted document that contains
\* customers, stamps or redemptions with a document built from the empty
\* fallback of readDB.  (On a db.json that held a customer from the start
\* no complete read gives a blank document: a writer whose handler read a
\* blank one read the fallback.)
C34_FallbackNeverWritten ==
  [][(writing /\ ~writing' /\ disk'.complete)
       => ~(~Blank(disk.doc) /\ Blank(reqs[Head(chain)].base))]_vars

\* C35: in server/index.js a successful POST /api/redeem never increases the
\* customer's stamp counter and never makes it negative, whatever
\* stampsRequired the client sends, and the redemption it records consumes at
\* least one stamp.
C35_RedeemOnlyDecreases ==
  \A customerId \in KnownIds, stampsRequired \in StampsRequiredInputs :
    LET o == MemRedeem(mem, customerId, stampsRequired, started + 1, now)
        before == Find(SelectSeq(mem.customers, LAMBDA c : c.id = customerId))
        after == Find(SelectSeq(o.db.customers, LAMBDA c : c.id = customerId))
    IN o.err = ""
       => /\ after.stamps <= before.stamps
          /\ after.stamps >= 0
          /\ Last(o.db.redemptions).stampsUsed >= 1

\* The counts of a redeem request of part_000, in halves: 1, 1.5, 2.
HalfCounts == {2, 3, 4}

\* C36: every Redemption record is well-formed: the record a successful
\* redeem of part_000 adds has a count equal to the number of ids in
\* stampIds, pairwise distinct ids, and each id names a stamp of the document
\* that belongs to the redemption's customer and is marked redeemed.
C36_RedemptionWellFormed ==
  variant = "p000" =>
    \A customerId \in KnownIds \ {0}, twice \in HalfCounts :
      LET o == RedeemMarkHalves(Doc, customerId, <<>>, twice, started + 1, now)
          x == Last(o.db.redemptions)
      IN o.err = ""
         => /\ x.count = 2 * Len(x.stampIds)
            /\ \A i, j \in DOMAIN x.stampIds : i # j => x.stampIds[i] # x.stampIds[j]
            /\ \A i \in DOMAIN x.stampIds :
                 \E s \in Range(o.db.stamps) :
                   s.id = x.stampIds[i] /\ s.customerId = x.customerId /\ s.redeemed

\* C37: in server/index.js, whenever the write queue has drained with no
\* write failure, the document on disk equals the document in memory: loading
\* db.json gives `db` as it is.
C37_DiskEqualsMemoryWhenDrained ==
  (variant = "mem" /\ chain = <<>> /\ ~writing /\ fails = 0)
    => disk.complete /\ ReadDb(disk) = mem

\* Every stamp and every redemption of document db names a customer of db.
Referential(db) ==
  /\ \A s \in Range(db.stamps) : \E c \in Range(db.customers) : c.id = s.customerId
  /\ \A x \in Range(db.redemptions) : \E c \in Range(db.customers) : c.id = x.customerId

\* C38: referential integrity holds in every reachable document state, under
\* any interleaving of register, issueStamp and redeemStamps requests: in
\* db.json, and in every document a handler has built and is writing, every
\* stamp's and every redemption's customerId is the id of a customer of the
\* same document.
C38_ReferentialIntegrity ==
  /\ Referential(Doc)
  /\ \A r \in Writers : Referential(reqs[r].out.db)

\* db.json holds a stamp and a redemption, and a registration that was
\* answered with success is missing from it (a concurrent write replaced it).
C38_Witness ==
  /\ disk.complete
  /\ Doc.stamps # <<>> /\ Doc.redemptions # <<>>
  /\ \E c \in registeredOut : \A x \in Range(Doc.customers) : x.id # c.id

====
